---- MODULE Spec2Model ----
(***************************************************************************)
(* Model of dayyass/neural_machine_translation:                            *)
(*   src/train.py    train, train_epoch, validate_epoch                    *)
(*   src/network.py  Seq2SeqRNNEncoder / Seq2SeqRNNDecoder / Seq2SeqRNN    *)
(*   src/dataset.py  load_data, WMTDataset                                 *)
(*                                                                         *)
(* Four programs are modelled over one set of variables:                  *)
(*   Spec        train() run on loaders that yield one-row batches         *)
(*   SpecBatch   train() run over one batch per loader, batches of up to   *)
(*               MaxRows rows and targets of up to MaxT positions          *)
(*   SpecEncoder Seq2SeqRNNEncoder.forward called on source batches        *)
(*   SpecDataset WMTDataset construction, len() and item reads             *)
(* Tensors are sequences of rows, rows are sequences of ids; Python's      *)
(* 0-based positions are TLA+ positions 1..Len.                            *)
(***************************************************************************)
EXTENDS Integers, Sequences, FiniteSets

VARIABLES
    \* ---- arguments of train() (src/train.py:117-128)
    n_epoch, trainloader, valloader, testloader, train_eval_freq, verbose,
    pool,            \* the largest shape of a batch the loaders yield
    \* ---- model and optimizer
    mode,            \* nn.Module.training: "Training" | "Inference"
    params,          \* parameter value, as the sequence of updates applied
    grad,            \* .grad buffers, as the batch gradients summed in them
    opt_state,       \* optimizer state: number of steps taken
    \* ---- frame of train()
    pc, epoch, train_metrics, val_metrics, test_metrics, stdout, error,
    \* ---- frame of the running train_epoch / validate_epoch call
    dataloader, it, i, batch, inputs, targets, outputs, loss, y_true, y_pred,
    metrics,
    \* ---- observation of the run (history)
    passes,          \* the epoch calls started so far
    ops,             \* gradient operations done for the current batch
    entry,           \* <<params, grad, opt_state>> when validate_epoch was called
    \* ---- Seq2SeqRNNEncoder.forward called directly
    enc_x, enc_result,
    \* ---- WMTDataset
    from_file, to_file, ds, ds_result

trainVars   == <<n_epoch, trainloader, valloader, testloader, train_eval_freq,
                 verbose, pool, mode, params, grad, opt_state, pc, epoch,
                 train_metrics, val_metrics, test_metrics, stdout, error,
                 dataloader, it, i, batch, inputs, targets, outputs, loss,
                 y_true, y_pred, metrics, passes, ops, entry>>
encVars     == <<enc_x, enc_result>>
dsVars      == <<from_file, to_file, ds, ds_result>>
vars        == <<trainVars, encVars, dsVars>>

(***************************************************************************)
(* Bounds of the model.                                                    *)
(***************************************************************************)
MaxEpoch   == 2     \* n_epoch ranges over 0..MaxEpoch
MaxBatches == 3     \* batches per loader range over 0..MaxBatches
MaxFreq    == 2     \* train_eval_freq ranges over -1..MaxFreq
MaxRows    == 2     \* rows of a batch (SpecBatch, SpecEncoder)
MaxT       == 3     \* target length T ranges over 2..MaxT
MaxSrcLen  == 3     \* padded source length (SpecEncoder)
MaxLines   == 2     \* lines of a corpus file

(***************************************************************************)
(* Token ids.                                                              *)
(***************************************************************************)
PAD_ID == 3         \* padding_idx=3 / infer_length(x, pad_id=3)
BOS_ID == 1         \* begin marker of the tokenizer
EOS_ID == 2         \* end marker of the tokenizer
Word   == PAD_ID + 1 \* an ordinary token id
SrcIds == {Word, PAD_ID}
Classes == {EOS_ID, Word}   \* the classes that can win a position's logits

None == <<>>
Min(a, b) == IF a < b THEN a ELSE b
Max(a, b) == IF a > b THEN a ELSE b

(***************************************************************************)
(* Python sequence slicing and integer modulo.                             *)
(***************************************************************************)
\* a slice bound k on a sequence of length n: negative counts from the end,
\* and the result is clamped to 0..n
SliceIndex(k, n) == IF k < 0 THEN Max(k + n, 0) ELSE Min(k, n)
\* s[:stop]
PySliceTo(s, stop) == SubSeq(s, 1, SliceIndex(stop, Len(s)))
\* s[start:]
PySliceFrom(s, start) == SubSeq(s, SliceIndex(start, Len(s)) + 1, Len(s))
\* a % b for a >= 0 and b # 0: the sign of the result follows the divisor
PyMod(a, b) ==
    IF b > 0 THEN a % b
    ELSE IF a % (0 - b) = 0 THEN 0 ELSE (a % (0 - b)) + b

(***************************************************************************)
(* src/network.py                                                          *)
(***************************************************************************)
\* utils.infer_length(x, pad_id): per row, the index of the first pad id, or
\* the full length when the row holds no pad id
infer_length(x, pad_id) ==
    [r \in 1..Len(x) |->
        IF \E p \in 1..Len(x[r]) : x[r][p] = pad_id
        THEN (CHOOSE p \in 1..Len(x[r]) :
                /\ x[r][p] = pad_id
                /\ \A q \in 1..(p - 1) : x[r][q] # pad_id) - 1
        ELSE Len(x[r])]

\* torch's pack_padded_sequence(enc_emb, lengths, batch_first=True,
\* enforce_sorted=False) rejects a batch holding a length <= 0 with a
\* RuntimeError; otherwise it keeps, per row, the first lengths[r] positions
pack_padded_sequence(enc_emb, lengths) ==
    IF \E r \in 1..Len(lengths) : lengths[r] <= 0
    THEN [raised |-> TRUE, data |-> None]
    ELSE [raised |-> FALSE,
          data   |-> [r \in 1..Len(enc_emb) |-> SubSeq(enc_emb[r], 1, lengths[r])]]

\* Seq2SeqRNNEncoder.forward(x): the context vector holds, per row, the final
\* hidden state of the GRU run over the packed (unpadded) row; that state is
\* represented by the ids it was computed from
Encoder_forward(x) ==
    LET enc_emb        == x
        lengths        == infer_length(x, PAD_ID)
        packed_enc_emb == pack_padded_sequence(enc_emb, lengths)
    IN  IF packed_enc_emb.raised
        THEN [raised |-> TRUE, context_vector |-> None]
        ELSE [raised |-> FALSE, context_vector |-> packed_enc_emb.data]

\* the logits of one position: a score per class, no two classes tied
LogitVecs ==
    {v \in [Classes -> 0..(Cardinality(Classes) - 1)] :
        \A c, d \in Classes : c # d => v[c] # v[d]}

\* Seq2SeqRNNDecoder.forward(x, context_vector): logits for every row and every
\* position of x; their values depend on the weights (and, in Training mode,
\* on dropout), so every value is possible
Decoder_forward(x, context_vector) ==
    [1..Len(x) -> [1..Len(x[1]) -> LogitVecs]]

\* Seq2SeqRNN.forward(from_seq, to_seq)
Seq2SeqRNN_forward(from_seq, to_seq) ==
    LET enc == Encoder_forward(from_seq)
    IN  IF enc.raised
        THEN [raised |-> TRUE, logits |-> {}]
        ELSE [raised |-> FALSE,
              logits |-> Decoder_forward(to_seq, enc.context_vector)]

(***************************************************************************)
(* src/train.py: what one batch iteration computes                         *)
(***************************************************************************)
MetricNames == {"loss", "accuracy"}

\* an accumulator holding nothing
EmptyMetrics == [m \in MetricNames |-> <<>>]

\* a faulty variant of FreshMetrics: the accumulator of the previous call is kept
StaleMetrics == metrics

\* metrics: DefaultDict[str, List[float]] = defaultdict(list), at the top of
\* train_epoch and of validate_epoch
FreshMetrics == EmptyMetrics

\* a faulty variant of TrainingMode: model.train() is not called
ModeLeftAsIs == mode

\* model.train()
TrainingMode == "Training"

\* model.eval()
InferenceMode == "Inference"

\* a faulty variant of TeacherTargets: the targets are not shifted
TargetsUnshifted(to_seq) ==
    [r \in 1..Len(to_seq) |-> PySliceTo(to_seq[r], 0 - 1)]

\* a faulty variant of FirstRow: the last row is taken
LastRow(t) == t[Len(t)]

\* a faulty variant of ReportDue: the number of batches processed is tested
ReportDueOnCount(idx, freq) == PyMod(idx + 1, freq) = 0

\* a faulty variant of ZeroGrad: the buffers are not cleared
KeepGrad(g) == g

\* the buffers after optimizer.zero_grad()
ZeroGrad(g) == <<>>

\* inputs = (from_seq, to_seq[:, :-1])
TeacherInputs(from_seq, to_seq) ==
    <<from_seq, [r \in 1..Len(to_seq) |-> PySliceTo(to_seq[r], 0 - 1)]>>

\* targets = to_seq[:, 1:]
TeacherTargets(to_seq) ==
    [r \in 1..Len(to_seq) |-> PySliceFrom(to_seq[r], 1)]

\* criterion(outputs.transpose(1, 2), targets): the injected loss function,
\* applied to the logits and the targets of every row
Criterion(logits, tgt) == [logits |-> logits, targets |-> tgt]

\* the class of the highest score
ArgMax(v) == CHOOSE c \in DOMAIN v : \A d \in DOMAIN v : v[d] <= v[c]

\* outputs.argmax(dim=-1)
ArgMaxLastDim(logits) ==
    [r \in 1..Len(logits) |-> [p \in 1..Len(logits[r]) |-> ArgMax(logits[r][p])]]

\* to_numpy(t)[0].tolist()
FirstRow(t) == t[1]

\* the batch a value was computed from: the epoch call and the batch's index
BatchTag == [call |-> Len(passes), batch |-> it - 1]

\* metrics.calculate_metrics(metrics, loss, y_true, y_pred): appends one value
\* per tracked metric; a value is represented by the batch it was computed on
calculate_metrics(mt, loss_item, yt, yp, tag) ==
    [m \in MetricNames |-> Append(mt[m], [metric |-> m, of |-> tag])]

\* if i % train_eval_freq == 0
ReportDue(idx, freq) == PyMod(idx, freq) = 0

\* np.mean(metric_list[-train_eval_freq:]) per metric: the values averaged
ReportWindow(mt, freq) == [m \in MetricNames |-> PySliceFrom(mt[m], 0 - freq)]

LoaderLen(name) ==
    CASE name = "train" -> trainloader
      [] name = "val"   -> valloader
      [] name = "test"  -> testloader[1]

\* print(...) under `if verbose:`
Emit(line) == IF verbose THEN Append(stdout, line) ELSE stdout

(***************************************************************************)
(* Batches.                                                                *)
(***************************************************************************)
\* a source row of true length n, right-padded to length L
SrcRow(L, n) == [p \in 1..L |-> IF p <= n THEN Word ELSE PAD_ID]
\* a target row: begin marker, k words, end marker, right-padded to length T
TgtRow(T, k) ==
    [p \in 1..T |-> IF p = 1 THEN BOS_ID
                    ELSE IF p <= k + 1 THEN Word
                    ELSE IF p = k + 2 THEN EOS_ID ELSE PAD_ID]
\* collation pads every row to the longest row of the batch
CollatedSrc(rows, L) ==
    {f \in [1..rows -> {SrcRow(L, n) : n \in 0..L}] :
        \E r \in 1..rows : f[r] = SrcRow(L, L)}
CollatedTgt(rows, T) ==
    {t \in [1..rows -> {TgtRow(T, k) : k \in 0..(T - 2)}] :
        \E r \in 1..rows : t[r] = TgtRow(T, T - 2)}
\* the batches of at most these many rows, source and target positions
BatchShape(maxRows, maxL, maxT) == [rows |-> maxRows, src |-> maxL, tgt |-> maxT]
CollatedBatches(maxRows, maxL, maxT) ==
    UNION {UNION {UNION {
        {[from_seq |-> f, to_seq |-> t] :
            f \in CollatedSrc(rows, L), t \in CollatedTgt(rows, T)}
        : T \in 2..maxT} : L \in 0..maxL} : rows \in 1..maxRows}
\* the batches a loader can yield
Batches(shape) == CollatedBatches(shape.rows, shape.src, shape.tgt)

(***************************************************************************)
(* src/train.py: train()                                                   *)
(***************************************************************************)
cfgVars    == <<n_epoch, trainloader, valloader, testloader, train_eval_freq,
                verbose, pool>>
localVars  == <<batch, inputs, targets, outputs, loss, y_true, y_pred>>
resultVars == <<train_metrics, val_metrics, test_metrics>>
otherVars  == <<encVars, dsVars>>

\* for epoch in range(n_epoch): one more epoch; train_epoch is called and runs
\* up to its loop (metrics = defaultdict(list); model.train())
Train_EpochEnter ==
    /\ pc = "loop"
    /\ epoch < n_epoch
    /\ stdout' = Emit([kind |-> "epoch", epoch |-> epoch + 1])
    /\ metrics' = FreshMetrics
    /\ mode' = TrainingMode
    /\ dataloader' = "train"
    /\ it' = 0
    /\ passes' = Append(passes, [driver |-> "train_epoch", source |-> "train"])
    /\ pc' = "te_iter"
    /\ UNCHANGED <<cfgVars, params, grad, opt_state, epoch, resultVars, error,
                   i, localVars, ops, entry, otherVars>>

\* range(n_epoch) is exhausted
Train_EpochsDone ==
    /\ pc = "loop"
    /\ epoch >= n_epoch
    /\ pc' = "test"
    /\ UNCHANGED <<cfgVars, mode, params, grad, opt_state, epoch, resultVars,
                   stdout, error, dataloader, it, i, localVars, metrics, passes,
                   ops, entry, otherVars>>

\* train_epoch: the loader yields batch i; inputs and targets are cut from it
TE_NextBatch ==
    /\ pc = "te_iter"
    /\ it < LoaderLen(dataloader)
    /\ \E b \in Batches(pool) :
        /\ batch' = b
        /\ inputs' = TeacherInputs(b.from_seq, b.to_seq)
        /\ targets' = TeacherTargets(b.to_seq)
    /\ i' = it
    /\ it' = it + 1
    /\ ops' = <<>>
    /\ pc' = "te_forward"
    /\ UNCHANGED <<cfgVars, mode, params, grad, opt_state, epoch, resultVars,
                   stdout, error, dataloader, outputs, loss, y_true, y_pred,
                   metrics, passes, entry, otherVars>>

\* outputs = model(*inputs); loss = criterion(outputs.transpose(1, 2), targets)
TE_Forward ==
    /\ pc = "te_forward"
    /\ LET fwd == Seq2SeqRNN_forward(inputs[1], inputs[2])
       IN  /\ ~fwd.raised
           /\ \E lg \in fwd.logits :
                /\ outputs' = lg
                /\ loss' = Criterion(lg, targets)
    /\ pc' = "te_backward"
    /\ UNCHANGED <<cfgVars, mode, params, grad, opt_state, epoch, resultVars,
                   stdout, error, dataloader, it, i, batch, inputs, targets,
                   y_true, y_pred, metrics, passes, ops, entry, otherVars>>

\* model(*inputs) raises: the exception leaves train_epoch and train
TE_ForwardRaise ==
    /\ pc = "te_forward"
    /\ Seq2SeqRNN_forward(inputs[1], inputs[2]).raised
    /\ error' = "RuntimeError"
    /\ pc' = "raised"
    /\ UNCHANGED <<cfgVars, mode, params, grad, opt_state, epoch, resultVars,
                   stdout, dataloader, it, i, localVars, metrics, passes, ops,
                   entry, otherVars>>

\* loss.backward(): the gradient of this batch's loss is added to the buffers
TE_Backward ==
    /\ pc = "te_backward"
    /\ grad' = Append(grad, BatchTag)
    /\ ops' = Append(ops, "backward")
    /\ pc' = "te_step"
    /\ UNCHANGED <<cfgVars, mode, params, opt_state, epoch, resultVars, stdout,
                   error, dataloader, it, i, localVars, metrics, passes, entry,
                   otherVars>>

\* optimizer.step(): the parameters move by what the buffers hold
TE_Step ==
    /\ pc = "te_step"
    /\ params' = Append(params, grad)
    /\ opt_state' = opt_state + 1
    /\ ops' = Append(ops, "step")
    /\ pc' = "te_zero_grad"
    /\ UNCHANGED <<cfgVars, mode, grad, epoch, resultVars, stdout, error,
                   dataloader, it, i, localVars, metrics, passes, entry,
                   otherVars>>

\* optimizer.zero_grad()
TE_ZeroGrad ==
    /\ pc = "te_zero_grad"
    /\ grad' = ZeroGrad(grad)
    /\ ops' = Append(ops, "zero_grad")
    /\ pc' = "te_metrics"
    /\ UNCHANGED <<cfgVars, mode, params, opt_state, epoch, resultVars, stdout,
                   error, dataloader, it, i, localVars, metrics, passes, entry,
                   otherVars>>

\* y_true, y_pred and metrics = calculate_metrics(...)
TE_Metrics ==
    /\ pc = "te_metrics"
    /\ y_true' = FirstRow(targets)
    /\ y_pred' = FirstRow(ArgMaxLastDim(outputs))
    /\ metrics' = calculate_metrics(metrics, loss, FirstRow(targets),
                                    FirstRow(ArgMaxLastDim(outputs)), BatchTag)
    /\ pc' = "te_report"
    /\ UNCHANGED <<cfgVars, mode, params, grad, opt_state, epoch, resultVars,
                   stdout, error, dataloader, it, i, batch, inputs, targets,
                   outputs, loss, passes, ops, entry, otherVars>>

\* if verbose: if i % train_eval_freq == 0: print the rolling means
TE_Report ==
    /\ pc = "te_report"
    /\ ~(verbose /\ train_eval_freq = 0)
    /\ stdout' =
         IF verbose /\ ReportDue(i, train_eval_freq)
         THEN Append(stdout, [kind   |-> "report",
                              call   |-> Len(passes),
                              after  |-> it,
                              window |-> ReportWindow(metrics, train_eval_freq)])
         ELSE stdout
    /\ pc' = "te_iter"
    /\ UNCHANGED <<cfgVars, mode, params, grad, opt_state, epoch, resultVars,
                   error, dataloader, it, i, localVars, metrics, passes, ops,
                   entry, otherVars>>

\* i % train_eval_freq with train_eval_freq = 0: ZeroDivisionError
TE_ReportRaise ==
    /\ pc = "te_report"
    /\ verbose /\ train_eval_freq = 0
    /\ error' = "ZeroDivisionError"
    /\ pc' = "raised"
    /\ UNCHANGED <<cfgVars, mode, params, grad, opt_state, epoch, resultVars,
                   stdout, dataloader, it, i, localVars, metrics, passes, ops,
                   entry, otherVars>>

\* the loader is exhausted: return metrics; train() prints the epoch's means
TE_Return ==
    /\ pc = "te_iter"
    /\ it >= LoaderLen(dataloader)
    /\ train_metrics' = metrics
    /\ stdout' = Emit([kind |-> "train", mean_of |-> metrics])
    /\ batch' = None /\ inputs' = None /\ targets' = None /\ outputs' = None
    /\ loss' = None /\ y_true' = None /\ y_pred' = None
    /\ pc' = "val"
    /\ UNCHANGED <<cfgVars, mode, params, grad, opt_state, epoch, val_metrics,
                   test_metrics, error, dataloader, it, i, metrics, passes, ops,
                   entry, otherVars>>

\* validate_epoch is called on a loader and runs up to its loop
\* (metrics = defaultdict(list); model.eval())
ValidateCall(source) ==
    /\ metrics' = FreshMetrics
    /\ mode' = InferenceMode
    /\ dataloader' = source
    /\ it' = 0
    /\ passes' = Append(passes, [driver |-> "validate_epoch", source |-> source])
    /\ entry' = <<params, grad, opt_state>>
    /\ pc' = "ve_iter"

\* val_metrics = validate_epoch(model, valloader, ...)
Val_Call ==
    /\ pc = "val"
    /\ ValidateCall("val")
    /\ UNCHANGED <<cfgVars, params, grad, opt_state, epoch, resultVars, stdout,
                   error, i, localVars, ops, otherVars>>

\* validate_epoch: the loader yields a batch; inputs and targets are cut from it
VE_NextBatch ==
    /\ pc = "ve_iter"
    /\ it < LoaderLen(dataloader)
    /\ \E b \in Batches(pool) :
        /\ batch' = b
        /\ inputs' = TeacherInputs(b.from_seq, b.to_seq)
        /\ targets' = TeacherTargets(b.to_seq)
    /\ it' = it + 1
    /\ pc' = "ve_forward"
    /\ UNCHANGED <<cfgVars, mode, params, grad, opt_state, epoch, resultVars,
                   stdout, error, dataloader, i, outputs, loss, y_true, y_pred,
                   metrics, passes, ops, entry, otherVars>>

\* a faulty variant of VE_Forward: the validation loop also steps the optimizer on
\* the batch, as the training loop does
VE_ForwardAndStep ==
    /\ pc = "ve_forward"
    /\ LET fwd == Seq2SeqRNN_forward(inputs[1], inputs[2])
       IN  /\ ~fwd.raised
           /\ \E lg \in fwd.logits :
                /\ outputs' = lg
                /\ loss' = Criterion(lg, targets)
    /\ params' = Append(params, <<BatchTag>>)
    /\ opt_state' = opt_state + 1
    /\ pc' = "ve_metrics"
    /\ UNCHANGED <<cfgVars, mode, grad, epoch, resultVars,
                   stdout, error, dataloader, it, i, batch, inputs, targets,
                   y_true, y_pred, metrics, passes, ops, entry, otherVars>>

\* with torch.no_grad(): outputs = model(*inputs); loss = criterion(...)
VE_Forward ==
    /\ pc = "ve_forward"
    /\ LET fwd == Seq2SeqRNN_forward(inputs[1], inputs[2])
       IN  /\ ~fwd.raised
           /\ \E lg \in fwd.logits :
                /\ outputs' = lg
                /\ loss' = Criterion(lg, targets)
    /\ pc' = "ve_metrics"
    /\ UNCHANGED <<cfgVars, mode, params, grad, opt_state, epoch, resultVars,
                   stdout, error, dataloader, it, i, batch, inputs, targets,
                   y_true, y_pred, metrics, passes, ops, entry, otherVars>>

\* model(*inputs) raises: the exception leaves validate_epoch and train
VE_ForwardRaise ==
    /\ pc = "ve_forward"
    /\ Seq2SeqRNN_forward(inputs[1], inputs[2]).raised
    /\ error' = "RuntimeError"
    /\ pc' = "raised"
    /\ UNCHANGED <<cfgVars, mode, params, grad, opt_state, epoch, resultVars,
                   stdout, dataloader, it, i, localVars, metrics, passes, ops,
                   entry, otherVars>>

\* y_true, y_pred and metrics = calculate_metrics(...)
VE_Metrics ==
    /\ pc = "ve_metrics"
    /\ y_true' = FirstRow(targets)
    /\ y_pred' = FirstRow(ArgMaxLastDim(outputs))
    /\ metrics' = calculate_metrics(metrics, loss, FirstRow(targets),
                                    FirstRow(ArgMaxLastDim(outputs)), BatchTag)
    /\ pc' = "ve_iter"
    /\ UNCHANGED <<cfgVars, mode, params, grad, opt_state, epoch, resultVars,
                   stdout, error, dataloader, it, i, batch, inputs, targets,
                   outputs, loss, passes, ops, entry, otherVars>>

\* the validation loader is exhausted: return metrics; train() prints the
\* means and goes to the next epoch
Val_Return ==
    /\ pc = "ve_iter"
    /\ dataloader = "val"
    /\ it >= LoaderLen(dataloader)
    /\ val_metrics' = metrics
    /\ stdout' = Emit([kind |-> "val", mean_of |-> metrics])
    /\ batch' = None /\ inputs' = None /\ targets' = None /\ outputs' = None
    /\ loss' = None /\ y_true' = None /\ y_pred' = None
    /\ epoch' = epoch + 1
    /\ pc' = "loop"
    /\ UNCHANGED <<cfgVars, mode, params, grad, opt_state, train_metrics,
                   test_metrics, error, dataloader, it, i, metrics, passes, ops,
                   entry, otherVars>>

\* if testloader is not None: test_metrics = validate_epoch(model, testloader, ...)
Test_Call ==
    /\ pc = "test"
    /\ testloader # None
    /\ ValidateCall("test")
    /\ UNCHANGED <<cfgVars, params, grad, opt_state, epoch, resultVars, stdout,
                   error, i, localVars, ops, otherVars>>

\* testloader is None: train() returns
Test_Skip ==
    /\ pc = "test"
    /\ testloader = None
    /\ pc' = "done"
    /\ UNCHANGED <<cfgVars, mode, params, grad, opt_state, epoch, resultVars,
                   stdout, error, dataloader, it, i, localVars, metrics, passes,
                   ops, entry, otherVars>>

\* the test loader is exhausted: return metrics; train() prints the means and
\* returns
Test_Return ==
    /\ pc = "ve_iter"
    /\ dataloader = "test"
    /\ it >= LoaderLen(dataloader)
    /\ test_metrics' = metrics
    /\ stdout' = Emit([kind |-> "test", mean_of |-> metrics])
    /\ batch' = None /\ inputs' = None /\ targets' = None /\ outputs' = None
    /\ loss' = None /\ y_true' = None /\ y_pred' = None
    /\ pc' = "done"
    /\ UNCHANGED <<cfgVars, mode, params, grad, opt_state, epoch, train_metrics,
                   val_metrics, error, dataloader, it, i, metrics, passes, ops,
                   entry, otherVars>>

(***************************************************************************)
(* train() called on a model and an optimizer as constructed.              *)
(***************************************************************************)
TrainStart ==
    /\ mode = "Training"
    /\ params = <<>>
    /\ grad = <<>>
    /\ opt_state = 0
    /\ pc = "loop"
    /\ epoch = 0
    /\ train_metrics = None /\ val_metrics = None /\ test_metrics = None
    /\ stdout = <<>>
    /\ error = "none"
    /\ dataloader = "none"
    /\ it = 0 /\ i = 0
    /\ batch = None /\ inputs = None /\ targets = None /\ outputs = None
    /\ loss = None /\ y_true = None /\ y_pred = None
    /\ metrics = EmptyMetrics
    /\ passes = <<>>
    /\ ops = <<>>
    /\ entry = None

EncIdle == enc_x = None /\ enc_result = None
\* no dataset object yet
NoDataset == [constructed |-> FALSE, from_lang_list |-> <<>>, to_lang_list |-> <<>>]
NoResult  == [op |-> "none", raised |-> "none", value |-> None]
DsIdle  == from_file = <<>> /\ to_file = <<>> /\ ds = NoDataset /\ ds_result = NoResult

Init ==
    /\ n_epoch \in 0..MaxEpoch
    /\ trainloader \in 0..MaxBatches
    /\ valloader \in 0..MaxBatches
    /\ testloader \in {None} \cup {<<n>> : n \in 0..MaxBatches}
    /\ train_eval_freq \in (0 - 1)..MaxFreq
    /\ verbose \in BOOLEAN
    /\ pool = BatchShape(1, 1, 2)
    /\ TrainStart
    /\ EncIdle
    /\ DsIdle

Next ==
    \/ Train_EpochEnter
    \/ Train_EpochsDone
    \/ TE_NextBatch
    \/ TE_Forward
    \/ TE_ForwardRaise
    \/ TE_Backward
    \/ TE_Step
    \/ TE_ZeroGrad
    \/ TE_Metrics
    \/ TE_Report
    \/ TE_ReportRaise
    \/ TE_Return
    \/ Val_Call
    \/ VE_NextBatch
    \/ VE_Forward
    \/ VE_ForwardRaise
    \/ VE_Metrics
    \/ Val_Return
    \/ Test_Call
    \/ Test_Skip
    \/ Test_Return

Spec == Init /\ [][Next]_vars

\* one epoch over one batch per loader; batches of up to MaxRows rows and MaxT
\* target positions
InitBatch ==
    /\ n_epoch = 1
    /\ trainloader = 1
    /\ valloader = 1
    /\ testloader \in {None, <<1>>}
    /\ train_eval_freq \in 0..1
    /\ verbose \in BOOLEAN
    /\ pool = BatchShape(MaxRows, 1, MaxT)
    /\ TrainStart
    /\ EncIdle
    /\ DsIdle

SpecBatch == InitBatch /\ [][Next]_vars

\* no train() run
TrainIdle ==
    /\ n_epoch = 0 /\ trainloader = 0 /\ valloader = 0 /\ testloader = None
    /\ train_eval_freq = 1 /\ verbose = FALSE /\ pool = BatchShape(0, 0, 0)
    /\ mode = "Training" /\ params = <<>> /\ grad = <<>> /\ opt_state = 0
    /\ pc = "idle" /\ epoch = 0
    /\ train_metrics = None /\ val_metrics = None /\ test_metrics = None
    /\ stdout = <<>> /\ error = "none" /\ dataloader = "none"
    /\ it = 0 /\ i = 0
    /\ batch = None /\ inputs = None /\ targets = None /\ outputs = None
    /\ loss = None /\ y_true = None /\ y_pred = None
    /\ metrics = EmptyMetrics /\ passes = <<>> /\ ops = <<>> /\ entry = None

(***************************************************************************)
(* Seq2SeqRNNEncoder.forward called on a source batch.                     *)
(***************************************************************************)
\* every tensor of ids of 1..MaxRows rows and 0..MaxSrcLen columns
SourceBatches ==
    UNION {UNION {[1..rows -> [1..L -> SrcIds]] : L \in 0..MaxSrcLen}
           : rows \in 1..MaxRows}

\* context_vector = encoder(x)
Enc_Call ==
    /\ enc_result = None
    /\ enc_result' = Encoder_forward(enc_x)
    /\ UNCHANGED <<enc_x, trainVars, dsVars>>

InitEncoder ==
    /\ enc_x \in SourceBatches
    /\ enc_result = None
    /\ TrainIdle
    /\ DsIdle

NextEncoder == Enc_Call

SpecEncoder == InitEncoder /\ [][NextEncoder]_vars

(***************************************************************************)
(* src/dataset.py                                                          *)
(***************************************************************************)
\* a line of a corpus file, as the ids the tokenizer gives its text
Lines == {<<>>, <<Word>>}
Files == UNION {[1..n -> Lines] : n \in 0..MaxLines}

\* tokenizer.encode(line, add_bos=..., add_eos=...)
Encode(line, add_bos, add_eos) ==
    (IF add_bos THEN <<BOS_ID>> ELSE <<>>) \o line
        \o (IF add_eos THEN <<EOS_ID>> ELSE <<>>)

\* load_data(data_path, tokenizer, add_bos, add_eos): one id list per line
load_data(file, add_bos, add_eos) ==
    [k \in 1..Len(file) |-> Encode(file[k], add_bos, add_eos)]

\* WMTDataset.__init__: both sides are loaded and kept
WMTDataset_init(from_lang_data, to_lang_data) ==
    [constructed    |-> TRUE,
     from_lang_list |-> load_data(from_lang_data, FALSE, FALSE),
     to_lang_list   |-> load_data(to_lang_data, TRUE, TRUE)]

\* WMTDataset.__len__
WMTDataset_len(self) ==
    IF Len(self.from_lang_list) = Len(self.to_lang_list)
    THEN [op |-> "len", raised |-> "none", value |-> Len(self.from_lang_list)]
    ELSE [op |-> "len", raised |-> "AssertionError", value |-> None]

\* WMTDataset.__getitem__(idx), idx >= 0
WMTDataset_getitem(self, idx) ==
    IF idx < Len(self.from_lang_list) /\ idx < Len(self.to_lang_list)
    THEN [op |-> "getitem", raised |-> "none",
          value |-> <<self.from_lang_list[idx + 1], self.to_lang_list[idx + 1]>>]
    ELSE [op |-> "getitem", raised |-> "IndexError", value |-> None]

\* dataset = WMTDataset(from_lang_data_path, to_lang_data_path, ...)
DS_Construct ==
    /\ ~ds.constructed
    /\ ds' = WMTDataset_init(from_file, to_file)
    /\ UNCHANGED <<from_file, to_file, ds_result, trainVars, encVars>>

\* len(dataset)
DS_Len ==
    /\ ds.constructed
    /\ ds_result' = WMTDataset_len(ds)
    /\ UNCHANGED <<from_file, to_file, ds, trainVars, encVars>>

\* dataset[idx]
DS_GetItem ==
    /\ ds.constructed
    /\ \E idx \in 0..MaxLines : ds_result' = WMTDataset_getitem(ds, idx)
    /\ UNCHANGED <<from_file, to_file, ds, trainVars, encVars>>

InitDataset ==
    /\ from_file \in Files
    /\ to_file \in Files
    /\ ds = NoDataset
    /\ ds_result = NoResult
    /\ TrainIdle
    /\ EncIdle

NextDataset == DS_Construct \/ DS_Len \/ DS_GetItem

SpecDataset == InitDataset /\ [][NextDataset]_vars

(***************************************************************************)
(* Properties.                                                             *)
(***************************************************************************)
TrainBatchPcs == {"te_forward", "te_backward", "te_step", "te_zero_grad",
                  "te_metrics", "te_report"}
ValBatchPcs   == {"ve_forward", "ve_metrics"}
InValidate    == Len(passes) > 0 /\ passes[Len(passes)].driver = "validate_epoch"
InTrainEpoch  == Len(passes) > 0 /\ passes[Len(passes)].driver = "train_epoch"
IsPrefix(s, t) == Len(s) <= Len(t) /\ s = SubSeq(t, 1, Len(s))

\* the gradient steps taken by the epoch call numbered c
StepsOfCall(c) ==
    LET OfCall(u) == \E k \in 1..Len(u) : u[k].call = c
    IN  SelectSeq(params, OfCall)

\* C1: with gradients clear when train() starts, the buffers are clear at the
\* start of every backward pass, every optimizer step applies the gradient of
\* exactly the current batch, each batch's operations are backward, step,
\* zero_grad in that order and complete before the next batch is fetched, no
\* batch's gradient is applied twice, and validation leaves the buffers clear.
C1_OneGradientPerStep ==
    /\ pc = "te_backward" => grad = <<>> /\ ops = <<>>
    /\ pc = "te_step" => grad = <<BatchTag>> /\ ops = <<"backward">>
    /\ pc = "te_zero_grad" => ops = <<"backward", "step">>
    /\ pc \in {"te_metrics", "te_report"} =>
            ops = <<"backward", "step", "zero_grad">>
    /\ pc \notin {"te_step", "te_zero_grad"} => grad = <<>>
    /\ \A k \in 1..Len(params) : Len(params[k]) = 1
    /\ \A k, l \in 1..Len(params) : k # l => params[k] # params[l]
    /\ opt_state = Len(params)
    /\ (InTrainEpoch /\ pc = "te_iter") => Len(StepsOfCall(Len(passes))) = it

C1_Witness ==
    /\ pc = "te_backward"
    /\ epoch = 1
    /\ it = 2
    /\ valloader >= 1
    /\ Len(params) = trainloader + 1

\* C2: from the call of validate_epoch on, through every batch and after its
\* return (or its failure), the parameters, the gradient buffers and the
\* optimizer state are what they were when it was called.
C2_ValidateFrame ==
    InValidate => <<params, grad, opt_state>> = entry

C2_Witness ==
    /\ pc = "done"
    /\ dataloader = "test"
    /\ it = 2
    /\ Len(params) >= 2
    /\ <<params, grad, opt_state>> = entry

TrainPass == [driver |-> "train_epoch", source |-> "train"]
EvalPass(source) == [driver |-> "validate_epoch", source |-> source]
ExpectedPasses(n, test) ==
    [k \in 1..(2 * n) |-> IF k % 2 = 1 THEN TrainPass ELSE EvalPass("val")]
        \o (IF test # None THEN <<EvalPass("test")>> ELSE <<>>)

\* C3: the passes train() runs are, in order, (train_epoch on the train source,
\* validate_epoch on the validation source) n_epoch times, then validate_epoch
\* on the test source iff one was supplied, and nothing else: the passes run so
\* far are always a prefix of that sequence and are the whole of it when
\* train() returns; the model is in Training mode during every training batch
\* and in Inference mode during every validation or test batch.
C3_PassSequence ==
    /\ IsPrefix(passes, ExpectedPasses(n_epoch, testloader))
    /\ pc = "done" => passes = ExpectedPasses(n_epoch, testloader)
    /\ pc \in TrainBatchPcs =>
            /\ mode = "Training"
            /\ passes[Len(passes)] = TrainPass
            /\ dataloader = "train"
    /\ pc \in ValBatchPcs =>
            /\ mode = "Inference"
            /\ passes[Len(passes)] = EvalPass(dataloader)
            /\ dataloader \in {"val", "test"}

C3_Witness ==
    /\ pc = "done"
    /\ n_epoch = 2
    /\ testloader = <<1>>
    /\ trainloader >= 1
    /\ valloader >= 1
    /\ Len(passes) = 5

\* the accumulator an epoch call holds after k batches: the values of batches
\* 0..k-1 of that call, in order, for every metric
AccumulatorOf(call, k) ==
    [m \in MetricNames |->
        [j \in 1..k |-> [metric |-> m, of |-> [call |-> call, batch |-> j - 1]]]]

\* the batches whose values have been appended by the running epoch call
Appended ==
    IF pc \in {"te_iter", "ve_iter", "te_report"} THEN it
    ELSE IF pc = "raised" /\ error = "ZeroDivisionError" THEN it
    ELSE it - 1

\* C4: an epoch call's accumulator holds, for every tracked metric, exactly one
\* value per batch processed so far, namely the values of this call's batches
\* in the order processed (so nothing of another call, and earlier values stay
\* as appended); the accumulator returned for a source of B batches holds
\* exactly B values per metric.
C4_AccumulatorPerCall ==
    /\ pc \in TrainBatchPcs \cup ValBatchPcs \cup {"te_iter", "ve_iter", "raised"} =>
            metrics = AccumulatorOf(Len(passes), Appended)
    /\ pc = "val" => train_metrics = AccumulatorOf(Len(passes), trainloader)
    /\ (pc = "loop" /\ epoch > 0) =>
            val_metrics = AccumulatorOf(Len(passes), valloader)
    /\ (pc = "done" /\ testloader # None) =>
            test_metrics = AccumulatorOf(Len(passes), testloader[1])

C4_Witness ==
    /\ pc = "loop"
    /\ epoch = 2
    /\ trainloader = 2
    /\ valloader = 2
    /\ Len(val_metrics["loss"]) = 2
    /\ Len(train_metrics["loss"]) = 2

\* pcs at which inputs and targets are those of the current batch, and at which
\* outputs are too
SplitPcs  == TrainBatchPcs \cup ValBatchPcs
OutputPcs == {"te_backward", "te_step", "te_zero_grad", "te_metrics",
              "te_report", "ve_metrics"}
Rows == Len(batch.to_seq)
T    == Len(batch.to_seq[1])

\* C5: for a batch of target length T >= 2, both drivers give the model the
\* source unchanged and target positions 0..T-2, and compare against target
\* positions 1..T-1: both have length T-1, the output token at position i is
\* the target token following the input token at position i, and the logits
\* have one position per target-output position, for every row.
C5_TeacherForcingShift ==
    /\ (pc \in SplitPcs /\ T >= 2) =>
            /\ inputs[1] = batch.from_seq
            /\ Len(inputs[2]) = Rows /\ Len(targets) = Rows
            /\ \A r \in 1..Rows :
                /\ Len(inputs[2][r]) = T - 1
                /\ Len(targets[r]) = T - 1
                /\ \A p \in 1..(T - 1) :
                    /\ inputs[2][r][p] = batch.to_seq[r][p]
                    /\ targets[r][p] = batch.to_seq[r][p + 1]
    /\ (pc \in OutputPcs /\ T >= 2) =>
            /\ Len(outputs) = Rows
            /\ \A r \in 1..Rows : Len(outputs[r]) = Len(targets[r])

C5_Witness ==
    /\ pc = "ve_metrics"
    /\ Rows = 2
    /\ T = 3
    /\ batch.to_seq[1] # batch.to_seq[2]
    /\ targets[1] = <<Word, EOS_ID>>
    /\ inputs[2][1] = <<BOS_ID, Word>>

\* the periodic reports printed by the running train_epoch call
Reports ==
    LET OfCall(e) == e.kind = "report" /\ e.call = Len(passes)
    IN  SelectSeq(stdout, OfCall)

\* C8 as stated: with reporting on and N >= 1, after k batches floor(k/N)
\* reports have been emitted, each after a positive multiple of N batches and
\* each averaging N values per metric.
C8_ReportEveryNProcessed ==
    (InTrainEpoch /\ pc = "te_iter" /\ verbose /\ train_eval_freq >= 1) =>
        /\ Len(Reports) = it \div train_eval_freq
        /\ \A r \in 1..Len(Reports) :
            /\ Reports[r].after % train_eval_freq = 0
            /\ \A m \in MetricNames :
                Len(Reports[r].window[m]) = train_eval_freq

\* C8 amended: with reporting on and N >= 1, a report follows a batch exactly
\* when the batch's 0-based index is a multiple of N, that is after batches
\* 1, N+1, 2N+1, ...; after k >= 1 batches floor((k-1)/N) + 1 reports have been
\* emitted, and the report after k' batches averages the min(N, k') most
\* recently appended values of each metric; with reporting off there is none.
C8_ReportOnIndexMultiple ==
    /\ (InTrainEpoch /\ pc = "te_iter" /\ verbose /\ train_eval_freq >= 1) =>
        /\ Len(Reports) =
              IF it = 0 THEN 0 ELSE ((it - 1) \div train_eval_freq) + 1
        /\ \A r \in 1..Len(Reports) :
            LET k == Reports[r].after
                n == Min(train_eval_freq, k)
            IN  /\ k = (r - 1) * train_eval_freq + 1
                /\ \A m \in MetricNames :
                    Reports[r].window[m] = SubSeq(metrics[m], k - n + 1, k)
    /\ ~verbose => Len(Reports) = 0

C8_Witness ==
    /\ InTrainEpoch /\ pc = "te_iter" /\ verbose
    /\ train_eval_freq = 2
    /\ it = 3
    /\ Len(Reports) = 2
    /\ Len(Reports[2].window["loss"]) = 2
    /\ Len(Reports[1].window["loss"]) = 1

\* C9: for every train_eval_freq, train_epoch with reporting on ends as it does
\* with reporting off: it does not fail in the report, and it returns, after
\* one optimizer step per batch, the accumulator of all the source's batches.
C9_ReportingObservational ==
    /\ error # "ZeroDivisionError"
    /\ pc = "val" =>
        /\ train_metrics = AccumulatorOf(Len(passes), trainloader)
        /\ Len(StepsOfCall(Len(passes))) = trainloader

\* pcs at which y_true and y_pred are those of the current batch
LabelPcs == pc = "te_report" \/ (pc \in {"te_iter", "ve_iter"} /\ it >= 1)

\* C10: the labels given to the metrics are row 0 of the target-output and,
\* per position, the class of the highest logit of row 0; the loss is computed
\* from the logits and targets of every row.
C10_LabelsAreRowZero ==
    LabelPcs =>
        /\ y_true = [p \in 1..(T - 1) |-> batch.to_seq[1][p + 1]]
        /\ Len(y_pred) = T - 1
        /\ \A p \in 1..(T - 1) : \A c \in Classes :
                outputs[1][p][c] <= outputs[1][p][y_pred[p]]
        /\ loss.logits = outputs /\ Len(loss.logits) = Rows
        /\ loss.targets = targets /\ Len(loss.targets) = Rows

C10_Witness ==
    /\ pc = "te_report"
    /\ Rows = 2
    /\ targets[1] # targets[2]
    /\ ArgMaxLastDim(outputs)[1] # ArgMaxLastDim(outputs)[2]
    /\ y_true = targets[1]
    /\ y_pred = ArgMaxLastDim(outputs)[1]

\* every row holds at least one id and only the pad id
AllPad(x) ==
    \A r \in 1..Len(x) :
        Len(x[r]) >= 1 /\ \A p \in 1..Len(x[r]) : x[r][p] = PAD_ID

\* C7: the Encoder's forward pass on a batch whose rows are all pad ids does
\* not raise and returns a context vector with one state per row.
C7_AllPadBatchEncodes ==
    (enc_result # None /\ AllPad(enc_x)) =>
        /\ ~enc_result.raised
        /\ Len(enc_result.context_vector) = Len(enc_x)

\* C6: a dataset object exists only with as many source as target sequences,
\* so an item is only ever read from such a dataset.
C6_MismatchFailsConstruction ==
    /\ ds.constructed => Len(ds.from_lang_list) = Len(ds.to_lang_list)
    /\ (ds_result.op = "getitem" /\ ds_result.raised = "none") =>
            Len(ds.from_lang_list) = Len(ds.to_lang_list)

====
